---- MODULE Spec2Model ----
(***************************************************************************)
(* Geometry of da_vinci.images.Image: resize() and crop().                 *)
(*                                                                         *)
(* Image.resize and Image.crop (src/da_vinci/images.py) delegate the       *)
(* arithmetic to calculate_dimensions, get_box_dimensions and              *)
(* parse_dimension, imported from da_vinci.utils.  That module is not      *)
(* among the sources, so these three operators follow the specification    *)
(* (sections 4.1 - 4.3); the Image methods follow the code.                *)
(*                                                                         *)
(* The module uses true division (from __future__ import division), so     *)
(* quotients are kept as exact fractions num/den and rounded once, the way *)
(* round() does in Python 2 (halves go away from zero).                    *)
(***************************************************************************)
EXTENDS Integers, Sequences, FiniteSets, TLC

VARIABLES img, req, last

vars == <<img, req, last>>

(* ---- bounds -------------------------------------------------------- *)

\* Largest side of an opened image and largest requested side.
MaxDim == 5

\* resize()/crop() are explored only on images whose sides are at most this.
MaxSide == 64

(* ---- value types --------------------------------------------------- *)

\* An optional argument: None is the empty sequence, a value v is <<v>>.
None == << >>

Some(v) == <<v>>

IsNone(o) == Len(o) = 0

\* LengthSpec: an int is absolute, a string 'p%' is a percentage.
Abs(v) == [pct |-> FALSE, val |-> v]

Pct(p) == [pct |-> TRUE, val |-> p]

Size(w, h) == [w |-> w, h |-> h]

Box(l, t, r, b) == [left |-> l, top |-> t, right |-> r, bottom |-> b]

Methods == {"stretch", "fit", "fill"}

\* Default of the center argument of Image.crop.
DefaultCenter == <<Pct(50), Pct(50)>>

NoSize == Size(0, 0)

NoBox == Box(0, 0, 0, 0)

(* ---- arithmetic ---------------------------------------------------- *)

AbsVal(x) == IF x < 0 THEN -x ELSE x

Max(a, b) == IF a >= b THEN a ELSE b

\* round(num / den) for den > 0, halves away from zero.
Round(num, den) ==
    IF num >= 0 THEN (2 * num + den) \div (2 * den)
                ELSE -((2 * (-num) + den) \div (2 * den))

(* ---- da_vinci.utils ------------------------------------------------ *)

\* resolve(spec, total): absolute unchanged, percentage round(total*p/100),
\* InvalidInput for a percentage of a negative total.
parse_dimension(spec, total) ==
    IF ~spec.pct THEN [ok |-> TRUE, val |-> spec.val]
    ELSE IF total < 0 THEN [ok |-> FALSE, val |-> 0]
    ELSE [ok |-> TRUE, val |-> Round(total * spec.val, 100)]

\* ClampSize without the clamp: a side that rounds to 0 stays 0.
ClampSize_unclamped(w, h) == Size(w, h)

\* Output sides are at least 1 after rounding.
ClampSize(w, h) == Size(Max(w, 1), Max(h, 1))

\* Both sides scaled by the single factor num/den.
Scaled(sw, sh, num, den) == ClampSize(Round(sw * num, den), Round(sh * num, den))

calculate_dimensions(width, height, sw, sh, method) ==
    IF IsNone(width) /\ IsNone(height) THEN [ok |-> FALSE, size |-> NoSize]
    ELSE IF IsNone(height)
        THEN [ok |-> TRUE,
              size |-> ClampSize(width[1], Round(width[1] * sh, sw))]
    ELSE IF IsNone(width)
        THEN [ok |-> TRUE,
              size |-> ClampSize(Round(height[1] * sw, sh), height[1])]
    ELSE LET rw == width[1]
             rh == height[1]
             \* rw/sw <= rh/sh
             widthRatioSmaller == rw * sh <= rh * sw
         IN  IF method = "stretch" THEN [ok |-> TRUE, size |-> ClampSize(rw, rh)]
             ELSE IF method = "fit"
                 THEN [ok |-> TRUE,
                       size |-> IF widthRatioSmaller THEN Scaled(sw, sh, rw, sw)
                                                     ELSE Scaled(sw, sh, rh, sh)]
             ELSE [ok |-> TRUE,
                   size |-> IF widthRatioSmaller THEN Scaled(sw, sh, rh, sh)
                                                 ELSE Scaled(sw, sh, rw, sw)]

\* One axis of the crop box: a span of the requested length centered at
\* c, shifted back into [0, total]; the whole axis when the length exceeds it.
AxisSpan(c, length, total) ==
    LET lo == c - (length \div 2)
    IN  IF length > total THEN <<0, total>>
        ELSE IF lo < 0 THEN <<0, length>>
        ELSE IF lo + length > total THEN <<total - length, total>>
        ELSE <<lo, lo + length>>

\* The center as get_box_dimensions resolves it against the source size.
resolve_center(center, sw, sh) ==
    <<parse_dimension(center[1], sw).val, parse_dimension(center[2], sh).val>>

get_box_dimensions(width, height, sw, sh, center) ==
    IF width <= 0 \/ height <= 0 THEN [ok |-> FALSE, box |-> NoBox]
    ELSE LET c == resolve_center(center, sw, sh)
             x == AxisSpan(c[1], width, sw)
             y == AxisSpan(c[2], height, sh)
         IN  [ok |-> TRUE, box |-> Box(x[1], y[1], x[2], y[2])]

(* ---- da_vinci.images.Image ----------------------------------------- *)

\* Image.resize with the requested width and height handed over in the
\* wrong order.
Image_resize_swapped_request(self, width, height, method) ==
    LET d == calculate_dimensions(height, width, self.w, self.h, method)
    IN  [ok |-> d.ok, size |-> d.size, img |-> IF d.ok THEN d.size ELSE self]

\* Image.resize with self.width and self.height handed over in the wrong
\* order.
Image_resize_swapped_source(self, width, height, method) ==
    LET d == calculate_dimensions(width, height, self.h, self.w, method)
    IN  [ok |-> d.ok, size |-> d.size, img |-> IF d.ok THEN d.size ELSE self]

\* Image.resize that falls back to the current width when no dimension is
\* given, instead of letting the call fail.
Image_resize_defaulting(self, width, height, method) ==
    LET w == IF IsNone(width) /\ IsNone(height) THEN Some(self.w) ELSE width
        d == calculate_dimensions(w, height, self.w, self.h, method)
    IN  [ok |-> d.ok, size |-> d.size, img |-> IF d.ok THEN d.size ELSE self]

\* Image.resize: the image takes the computed size; an exception raised by
\* calculate_dimensions leaves the image as it was.
Image_resize(self, width, height, method) ==
    LET d == calculate_dimensions(width, height, self.w, self.h, method)
    IN  [ok |-> d.ok, size |-> d.size, img |-> IF d.ok THEN d.size ELSE self]

\* Image.crop with self.width and self.height handed to get_box_dimensions
\* in the wrong order.
Image_crop_swapped_source(self, width, height, center) ==
    LET c == <<parse_dimension(center[1], self.w).val,
               parse_dimension(center[2], self.h).val>>
        b == get_box_dimensions(width, height, self.h, self.w,
                                <<Abs(c[1]), Abs(c[2])>>)
    IN  [ok |-> b.ok, box |-> b.box, cen |-> c,
         cen2 |-> resolve_center(<<Abs(c[1]), Abs(c[2])>>, self.h, self.w),
         img |-> IF b.ok THEN Size(b.box.right - b.box.left,
                                   b.box.bottom - b.box.top)
                         ELSE self]

\* Image.crop with the requested width and height handed to
\* get_box_dimensions in the wrong order.
Image_crop_swapped_request(self, width, height, center) ==
    LET c == <<parse_dimension(center[1], self.w).val,
               parse_dimension(center[2], self.h).val>>
        b == get_box_dimensions(height, width, self.w, self.h,
                                <<Abs(c[1]), Abs(c[2])>>)
    IN  [ok |-> b.ok, box |-> b.box, cen |-> c,
         cen2 |-> resolve_center(<<Abs(c[1]), Abs(c[2])>>, self.w, self.h),
         img |-> IF b.ok THEN Size(b.box.right - b.box.left,
                                   b.box.bottom - b.box.top)
                         ELSE self]

\* Image.crop that resolves each center coordinate against the other axis.
Image_crop_swapped_totals(self, width, height, center) ==
    LET c == <<parse_dimension(center[1], self.h).val,
               parse_dimension(center[2], self.w).val>>
        b == get_box_dimensions(width, height, self.w, self.h,
                                <<Abs(c[1]), Abs(c[2])>>)
    IN  [ok |-> b.ok, box |-> b.box, cen |-> c,
         cen2 |-> resolve_center(<<Abs(c[1]), Abs(c[2])>>, self.w, self.h),
         img |-> IF b.ok THEN Size(b.box.right - b.box.left,
                                   b.box.bottom - b.box.top)
                         ELSE self]

\* Image.crop: the center is resolved against the image's own size first and
\* handed on as a pair of ints; the image becomes the extracted box.
Image_crop(self, width, height, center) ==
    LET c == <<parse_dimension(center[1], self.w).val,
               parse_dimension(center[2], self.h).val>>
        b == get_box_dimensions(width, height, self.w, self.h,
                                <<Abs(c[1]), Abs(c[2])>>)
    IN  [ok |-> b.ok, box |-> b.box, cen |-> c,
         cen2 |-> resolve_center(<<Abs(c[1]), Abs(c[2])>>, self.w, self.h),
         img |-> IF b.ok THEN Size(b.box.right - b.box.left,
                                   b.box.bottom - b.box.top)
                         ELSE self]

(* ---- inputs -------------------------------------------------------- *)

Dims == 1..MaxDim

OptDims == {None} \cup {Some(v) : v \in Dims}

Percents == {-50, 0, 25, 50, 150}

LengthSpecs == {Pct(p) : p \in Percents} \cup {Abs(v) : v \in 0..MaxDim}

CropDims == 0..MaxDim

\* The calls a client can make on an image: resize(width, height, method)
\* with either dimension optional, crop(width, height, center).
ResizeCalls ==
    [op : {"resize"}, width : OptDims, height : OptDims, method : Methods,
     center : {DefaultCenter}]

CropCalls ==
    [op : {"crop"}, width : {Some(v) : v \in CropDims},
     height : {Some(v) : v \in CropDims}, method : {"stretch"},
     center : LengthSpecs \X LengthSpecs]

NoCall == [op |-> "none", src |-> NoSize, ok |-> TRUE, size |-> NoSize,
           box |-> NoBox, cen |-> <<0, 0>>, cen2 |-> <<0, 0>>, again |-> FALSE]

(* ---- state machine ------------------------------------------------- *)

\* img  : size of the underlying PIL image (Image.width, Image.height)
\* req  : the call the client makes on the image, with its arguments
\* last : the most recent call: the size it was made on and its outcome

\* An image freshly opened by from_file / from_url, and the client's call.
Init ==
    /\ img \in {Size(w, h) : w \in Dims, h \in Dims}
    /\ req \in ResizeCalls \cup CropCalls
    /\ last = NoCall

Small(i) == i.w <= MaxSide /\ i.h <= MaxSide

Resize ==
    /\ req.op = "resize"
    /\ Small(img)
    /\ LET r == Image_resize(img, req.width, req.height, req.method)
       IN  /\ img' = r.img
           /\ last' = [NoCall EXCEPT
                         !.op = "resize", !.src = img, !.ok = r.ok,
                         !.size = r.size,
                         !.again = (last.op = "resize" /\ last.ok)]
    /\ UNCHANGED req

Crop ==
    /\ req.op = "crop"
    /\ Small(img)
    /\ LET r == Image_crop(img, req.width[1], req.height[1], req.center)
       IN  /\ img' = r.img
           /\ last' = [NoCall EXCEPT
                         !.op = "crop", !.src = img, !.ok = r.ok,
                         !.box = r.box, !.cen = r.cen, !.cen2 = r.cen2,
                         !.again = (last.op = "crop" /\ last.ok)]
    /\ UNCHANGED req

Next == Resize \/ Crop

Spec == Init /\ [][Next]_vars

TypeOK ==
    /\ img.w >= 1 /\ img.h >= 1
    /\ last.op \in {"none", "resize", "crop"}

(* ---- the calls the properties speak about -------------------------- *)

\* resize() has returned or raised.
Resized == last.op = "resize"

\* crop() has returned or raised.
Cropped == last.op = "crop"

\* resize() was called with both dimensions.
BothGiven == req.op = "resize" /\ ~IsNone(req.width) /\ ~IsNone(req.height)

\* resize() was called with exactly one dimension.
OneGiven == req.op = "resize" /\ (IsNone(req.width) # IsNone(req.height))

\* resize() was called with no dimension.
NoneGiven == req.op = "resize" /\ IsNone(req.width) /\ IsNone(req.height)

\* d is an integer nearest to num / den (den > 0).
Nearest(d, num, den) == 2 * AbsVal(d * den - num) <= den

(* ---- resize -------------------------------------------------------- *)

\* C1: under "fit" with both dimensions given, the new size is within the
\* request on both axes and within 1 of it on at least one axis.
C1_FitInside ==
    (Resized /\ BothGiven /\ req.method = "fit") =>
        /\ last.ok
        /\ img = last.size
        /\ img.w <= req.width[1]
        /\ img.h <= req.height[1]
        /\ \/ AbsVal(img.w - req.width[1]) <= 1
           \/ AbsVal(img.h - req.height[1]) <= 1

\* A "fit" that changed the image, met the requested width and left the
\* height strictly below the request.
C1_Witness ==
    /\ Resized /\ BothGiven /\ req.method = "fit"
    /\ img # last.src
    /\ img.w = req.width[1]
    /\ img.h < req.height[1]

\* C2: under "fill" with both dimensions given, the new size covers the
\* request on both axes and is within 1 of it on at least one axis.
C2_FillCovers ==
    (Resized /\ BothGiven /\ req.method = "fill") =>
        /\ last.ok
        /\ img = last.size
        /\ img.w >= req.width[1]
        /\ img.h >= req.height[1]
        /\ \/ AbsVal(img.w - req.width[1]) <= 1
           \/ AbsVal(img.h - req.height[1]) <= 1

\* A "fill" that changed the image, met the requested height and overshot
\* the requested width.
C2_Witness ==
    /\ Resized /\ BothGiven /\ req.method = "fill"
    /\ img # last.src
    /\ img.h = req.height[1]
    /\ img.w > req.width[1]

\* The size resize() gives for the same arguments under every method.
SameForEveryMethod ==
    \A m \in Methods :
        Image_resize(last.src, req.width, req.height, m).size = last.size

\* C7 as stated: with exactly one dimension given, that axis is returned as
\* given and the other is present * (sourceOther / sourcePresent) rounded to
\* the nearest integer, whatever the method.
C7_DerivedIsRounded ==
    (Resized /\ OneGiven) =>
        /\ last.ok
        /\ IF IsNone(req.height)
             THEN /\ last.size.w = req.width[1]
                  /\ Nearest(last.size.h, req.width[1] * last.src.h, last.src.w)
             ELSE /\ last.size.h = req.height[1]
                  /\ Nearest(last.size.w, req.height[1] * last.src.w, last.src.h)
        /\ SameForEveryMethod

\* The derived axis: 1 when the quotient rounds to 0, else a nearest integer.
DerivedAxis(d, num, den) ==
    IF 2 * num < den THEN d = 1 ELSE Nearest(d, num, den)

\* C7 amended: with exactly one dimension given, that axis is returned as
\* given and the other is present * (sourceOther / sourcePresent) rounded to
\* the nearest integer, or 1 when that rounds to 0, whatever the method.
C7_DerivedIsRoundedOrOne ==
    (Resized /\ OneGiven) =>
        /\ last.ok
        /\ img = last.size
        /\ IF IsNone(req.height)
             THEN /\ last.size.w = req.width[1]
                  /\ DerivedAxis(last.size.h, req.width[1] * last.src.h,
                                 last.src.w)
             ELSE /\ last.size.h = req.height[1]
                  /\ DerivedAxis(last.size.w, req.height[1] * last.src.w,
                                 last.src.h)
        /\ SameForEveryMethod

\* Only the width was given, under "fill", on a source so wide that the
\* derived height rounds to 0: the height comes out as 1.
C7_Witness ==
    /\ Resized /\ OneGiven /\ IsNone(req.height) /\ req.method = "fill"
    /\ 2 * req.width[1] * last.src.h < last.src.w
    /\ last.size.w = req.width[1]
    /\ last.size.h = 1

\* C8: resize() with neither dimension fails, for every source size and
\* method, and produces no size: the image is left as it was.
C8_NoDimensionFails ==
    (Resized /\ NoneGiven) =>
        /\ ~last.ok
        /\ last.size = NoSize
        /\ img = last.src

\* resize() was called with neither dimension under "fit" and has failed.
C8_Witness ==
    /\ Resized /\ NoneGiven /\ req.method = "fit"
    /\ ~last.ok
    /\ img.w # img.h

\* C9: whenever resize() is given at least one dimension, both sides of the
\* new size are at least 1.
C9_SidesPositive ==
    (Resized /\ ~NoneGiven) =>
        /\ last.ok
        /\ img = last.size
        /\ img.w >= 1
        /\ img.h >= 1

\* A side whose exact value rounds to 0 came out as 1: the short axis of an
\* elongated source under "fit".
C9_Witness ==
    /\ Resized /\ BothGiven /\ req.method = "fit"
    /\ 2 * req.width[1] * last.src.h < last.src.w
    /\ img.w = req.width[1]
    /\ img.h = 1

\* C10: repeating a resize() with both dimensions, on the image the first
\* call produced, leaves the size as the first call made it.
C10_ResizeIdempotent ==
    (Resized /\ BothGiven /\ last.again) =>
        /\ last.ok
        /\ last.size = last.src
        /\ img = last.src

\* A "fill" was repeated on an image the first call had made larger than
\* the request.
C10_Witness ==
    /\ Resized /\ BothGiven /\ last.again /\ req.method = "fill"
    /\ last.src.h > req.height[1]
    /\ last.src.w = req.width[1]

(* ---- crop ---------------------------------------------------------- *)

\* crop() was called with a positive width and height.
PositiveCrop == req.op = "crop" /\ req.width[1] > 0 /\ req.height[1] > 0

\* C3: for a positive requested size and any center, the box lies inside
\* the source and is not empty.
C3_BoxInsideSource ==
    (Cropped /\ PositiveCrop) =>
        /\ last.ok
        /\ 0 <= last.box.left /\ last.box.left < last.box.right
        /\ last.box.right <= last.src.w
        /\ 0 <= last.box.top /\ last.box.top < last.box.bottom
        /\ last.box.bottom <= last.src.h

\* A crop of a non-square image centered beyond the right edge (150%) and
\* before the top edge (-50%).
C3_Witness ==
    /\ Cropped /\ PositiveCrop /\ last.ok
    /\ last.src.w > last.src.h
    /\ req.center = <<Pct(150), Pct(-50)>>
    /\ last.box.right = last.src.w
    /\ last.box.top = 0

\* C4: a requested size that fits the source is kept exactly, the box being
\* shifted back into bounds; 40x40 at (0%, 0%) of 100x100 is (0, 0, 40, 40).
C4_ShiftKeepsSize ==
    /\ (Cropped /\ PositiveCrop /\ req.width[1] <= last.src.w
                /\ req.height[1] <= last.src.h) =>
           /\ last.ok
           /\ last.box.right - last.box.left = req.width[1]
           /\ last.box.bottom - last.box.top = req.height[1]
           /\ img = Size(req.width[1], req.height[1])
    /\ Image_crop(Size(100, 100), 40, 40, <<Pct(0), Pct(0)>>).box
           = Box(0, 0, 40, 40)

\* A box smaller than the source whose left edge would be negative and whose
\* bottom edge would pass the source: shifted to left 0 and bottom = height.
C4_Witness ==
    /\ Cropped /\ PositiveCrop /\ last.ok
    /\ req.width[1] < last.src.w /\ req.height[1] < last.src.h
    /\ req.width[1] # req.height[1]
    /\ last.cen[1] - (req.width[1] \div 2) < 0
    /\ last.cen[2] - (req.height[1] \div 2) + req.height[1] > last.src.h
    /\ last.box.left = 0
    /\ last.box.bottom = last.src.h

\* C5: an axis whose requested size exceeds the source spans the whole
\* source on that axis; the other axis keeps its requested size.
C5_OversizeClampsAxis ==
    (Cropped /\ PositiveCrop) =>
        /\ last.ok
        /\ req.width[1] > last.src.w =>
               last.box.left = 0 /\ last.box.right = last.src.w
        /\ req.height[1] > last.src.h =>
               last.box.top = 0 /\ last.box.bottom = last.src.h
        /\ req.width[1] <= last.src.w =>
               last.box.right - last.box.left = req.width[1]
        /\ req.height[1] <= last.src.h =>
               last.box.bottom - last.box.top = req.height[1]

\* The requested width exceeds the source, the requested height is smaller
\* than the source: full width, requested height.
C5_Witness ==
    /\ Cropped /\ PositiveCrop /\ last.ok
    /\ req.width[1] > last.src.w
    /\ req.height[1] < last.src.h
    /\ last.src.w # last.src.h
    /\ last.box.right = last.src.w
    /\ last.box.bottom - last.box.top = req.height[1]

\* What resolve() must give for one coordinate: the value itself when
\* absolute, an integer nearest to total * p / 100 when a percentage.
Resolved(c, spec, total) ==
    IF spec.pct THEN Nearest(c, total * spec.val, 100) ELSE c = spec.val

\* C6: an absolute spec resolves to itself for every total, a percentage p
\* to round(total * p / 100); the center Image.crop has resolved is not
\* changed when the box calculation resolves it again.
C6_ResolveCenter ==
    /\ Cropped =>
           /\ Resolved(last.cen[1], req.center[1], last.src.w)
           /\ Resolved(last.cen[2], req.center[2], last.src.h)
           /\ last.cen2 = last.cen
           /\ last.box = get_box_dimensions(req.width[1], req.height[1],
                                            last.src.w, last.src.h,
                                            req.center).box
    /\ parse_dimension(Pct(50), 200).val = 100
    /\ parse_dimension(Pct(150), 200).val = 300
    /\ \A total \in 0..MaxDim : parse_dimension(Abs(30), total).val = 30
    /\ \A p \in Percents : parse_dimension(Pct(p), 0).val = 0

\* A crop of a non-square image whose x center is a percentage that does not
\* resolve to a whole pixel exactly and whose y center is absolute and lies
\* beyond the image.
C6_Witness ==
    /\ Cropped /\ PositiveCrop /\ last.ok
    /\ last.src.w # last.src.h
    /\ req.center[1].pct
    /\ (last.src.w * req.center[1].val) % 100 # 0
    /\ ~req.center[2].pct
    /\ req.center[2].val > last.src.h
    /\ last.cen[2] = req.center[2].val

====
